---- MODULE Spec2Model ----
(***************************************************************************)
(* A model of the 202509_update analysis scripts:                          *)
(*   scripts/202509_update/feedback_form_basic_stats.py                    *)
(*   scripts/202509_update/calculate_basic_pub_stats.py                    *)
(*                                                                         *)
(* Floating-point values are modelled as exact rationals extended with the *)
(* IEEE special values NaN and +/-Inf (records with a field k).  Square    *)
(* roots and the Student-t quantile are kept symbolic (see the second      *)
(* part of the module).                                                    *)
(***************************************************************************)
EXTENDS Integers, Sequences, FiniteSets, TLC

VARIABLES
    tables,            \* feedback: per question, what chi2_contingency yields
    pc,                \* feedback: position in analyze_version_differences_v2
    idx,               \* feedback: loop index of the running for-loop
    analysis_results,  \* feedback: the list of per-question result dicts
    p_bonferroni,      \* feedback: array returned by multipletests(bonferroni)
    q_fdr,             \* feedback: array returned by multipletests(fdr_bh)
    output,            \* feedback: verdict lines printed so far
    rows,              \* pubstats: the table rows (version, raw cell)
    stats_v1,          \* pubstats: calculate_descriptive_stats(series1)
    stats_v2,          \* pubstats: calculate_descriptive_stats(series2)
    effects,           \* pubstats: calculate_mean_difference_effects(series1, series2)
    effects_swapped,   \* pubstats: calculate_mean_difference_effects(series2, series1)
    comparisons,       \* pubstats: compare_groups(series1, series2)
    fault,             \* pubstats: the exception that ended the run, or "none"
    welch_df,          \* df formula: its inputs n1, n2, v1, v2 and its result
    web,               \* readability: what the site answers (robots.txt, page, text)
    requested,         \* readability: the requests sent so far, in order
    allowed,           \* readability: what is_allowed_by_robots returned
    printed,           \* readability: print_readability_metrics has computed the metrics
    csv,               \* main_v2_analysis: the two CSV files as read
    df_current,        \* main_v2_analysis: the data frame df_current
    calls,             \* main_v2_analysis: the helper calls made so far, with their samples
    raised             \* main_v2_analysis: the exception that ended the run, or "none"

fvars == <<tables, idx, analysis_results, p_bonferroni, q_fdr, output>>

svars == <<rows, stats_v1, stats_v2, effects, effects_swapped, comparisons, fault>>

\* the variables of the df formula, of the readability script and of
\* main_v2_analysis
ovars == <<welch_df, web, requested, allowed, printed, csv, df_current, calls, raised>>

vars == <<pc, fvars, svars, ovars>>

\* the variables of the other scripts, which a run leaves alone
WelchIdle == welch_df = << >>

ScrapeIdle == web = << >> /\ requested = << >> /\ allowed = "unset" /\ printed = FALSE

MainIdle == csv = << >> /\ df_current = << >> /\ calls = << >> /\ raised = "none"

----------------------------------------------------------------------------
(* Exact arithmetic: rationals <<n, d>> in lowest terms with d > 0.        *)

Abs(x) == IF x < 0 THEN -x ELSE x

RECURSIVE GCD(_, _)
GCD(a, b) == IF b = 0 THEN a ELSE GCD(b, a % b)

\* float64 value: a finite number n/d, NaN, or an infinity of sign n
Num(n, d) ==
    LET g == GCD(Abs(n), Abs(d))
        s == IF d < 0 THEN -1 ELSE 1
    IN  [k |-> "num", n |-> (s * n) \div g, d |-> (s * d) \div g]

NaN == [k |-> "nan", n |-> 0, d |-> 0]

Inf(s) == [k |-> "inf", n |-> s, d |-> 0]

Unset == [k |-> "unset", n |-> 0, d |-> 0]

FromInt(i) == Num(i, 1)

Sgn(i) == IF i > 0 THEN 1 ELSE IF i < 0 THEN -1 ELSE 0

IsNum(x) == x.k = "num"

IsNaN(x) == x.k = "nan"

FNeg(x) ==
    IF x.k = "num" THEN Num(-x.n, x.d)
    ELSE IF x.k = "inf" THEN Inf(-x.n)
    ELSE x

FAdd(x, y) ==
    IF x.k = "nan" \/ y.k = "nan" THEN NaN
    ELSE IF x.k = "inf" /\ y.k = "inf" THEN (IF x.n = y.n THEN x ELSE NaN)
    ELSE IF x.k = "inf" THEN x
    ELSE IF y.k = "inf" THEN y
    ELSE Num(x.n * y.d + y.n * x.d, x.d * y.d)

FSub(x, y) == FAdd(x, FNeg(y))

FMul(x, y) ==
    IF x.k = "nan" \/ y.k = "nan" THEN NaN
    ELSE IF x.k = "inf" \/ y.k = "inf"
         THEN (IF Sgn(x.n) * Sgn(y.n) = 0 THEN NaN ELSE Inf(Sgn(x.n) * Sgn(y.n)))
    ELSE Num(x.n * y.n, x.d * y.d)

\* numpy float64 division: x/0 is an infinity, 0/0 is NaN, no exception
FDiv(x, y) ==
    IF x.k = "nan" \/ y.k = "nan" THEN NaN
    ELSE IF x.k = "inf" THEN (IF y.k = "inf" THEN NaN
                              ELSE Inf(x.n * (IF y.n < 0 THEN -1 ELSE 1)))
    ELSE IF y.k = "inf" THEN Num(0, 1)
    ELSE IF y.n = 0 THEN (IF x.n = 0 THEN NaN ELSE Inf(Sgn(x.n)))
    ELSE Num(x.n * y.d, x.d * y.n)

\* IEEE comparisons: every comparison with a NaN is false
FLt(x, y) ==
    /\ x.k # "nan" /\ y.k # "nan"
    /\ IF x.k = "inf" THEN x.n < 0 /\ ~(y.k = "inf" /\ y.n < 0)
       ELSE IF y.k = "inf" THEN y.n > 0
       ELSE x.n * y.d < y.n * x.d

FEq(x, y) == x.k # "nan" /\ y.k # "nan" /\ x = y

FLe(x, y) == FLt(x, y) \/ FEq(x, y)

FGt(x, y) == FLt(y, x)

FMinimum(x, y) ==
    IF x.k = "nan" \/ y.k = "nan" THEN NaN ELSE IF FLt(y, x) THEN y ELSE x

One == Num(1, 1)

Zero == Num(0, 1)

\* a result variable before its call
NotCalled == [called |-> FALSE]

----------------------------------------------------------------------------
(* statsmodels.stats.multitest.multipletests, as called by                 *)
(* analyze_version_differences_v2 (is_sorted=False, returnsorted=False).   *)

Perms(n) == {f \in [1..n -> 1..n] : \A a, b \in 1..n : a # b => f[a] # f[b]}

\* np.argsort: ascending, NaN last, ties in index order
Before(pvals, a, b) ==
    \/ FLt(pvals[a], pvals[b])
    \/ pvals[a].k # "nan" /\ pvals[b].k = "nan"
    \/ /\ ~FLt(pvals[b], pvals[a])
       /\ pvals[a].k = "nan" <=> pvals[b].k = "nan"
       /\ a < b

argsort(pvals) ==
    LET n == Len(pvals)
    IN  CHOOSE s \in Perms(n) : \A a, b \in 1..n : a < b => Before(pvals, s[a], s[b])

take(pvals, sortind) == [j \in 1..Len(pvals) |-> pvals[sortind[j]]]

\* pvals_corrected[pvals_corrected > 1] = 1
Clip1(ps) == [j \in 1..Len(ps) |-> IF FGt(ps[j], One) THEN One ELSE ps[j]]

\* pvals_corrected_[sortind] = pvals_corrected
Scatter(ps, sortind) ==
    [i \in 1..Len(ps) |-> ps[CHOOSE j \in 1..Len(ps) : sortind[j] = i]]

\* mutant: the running minimum taken from the front (the array not reversed)
RECURSIVE M_MinAccumulateFwd(_, _)
M_MinAccumulateFwd(raw, j) ==
    IF j = 1 THEN raw[j]
    ELSE FMinimum(M_MinAccumulateFwd(raw, j - 1), raw[j])

\* np.minimum.accumulate(raw[::-1])[::-1]
RECURSIVE MinAccumulateRev(_, _)
MinAccumulateRev(raw, j) ==
    IF j = Len(raw) THEN raw[j]
    ELSE FMinimum(MinAccumulateRev(raw, j + 1), raw[j])

\* mutant: p * k / rank without the step-up running minimum
M_fdrcorrection_noaccum(pvals_sorted) ==
    LET n == Len(pvals_sorted)
    IN  Clip1([j \in 1..n |-> FDiv(pvals_sorted[j], Num(j, n))])

\* fdrcorrection(pvals_sorted, method='indep', is_sorted=True)
fdrcorrection(pvals_sorted) ==
    LET n == Len(pvals_sorted)
        ecdffactor == [j \in 1..n |-> Num(j, n)]
        pvals_corrected_raw == [j \in 1..n |-> FDiv(pvals_sorted[j], ecdffactor[j])]
    IN  Clip1([j \in 1..n |-> MinAccumulateRev(pvals_corrected_raw, j)])

\* mutant: p * k left uncapped
M_bonferroni_noclip(pvals) ==
    [j \in 1..Len(pvals) |-> FMul(pvals[j], FromInt(Len(pvals)))]

multipletests_bonferroni(pvals) ==
    LET sortind == argsort(pvals)
        sorted == take(pvals, sortind)
        ntests == Len(pvals)
        pvals_corrected == [j \in 1..ntests |-> FMul(sorted[j], FromInt(ntests))]
    IN  Scatter(Clip1(pvals_corrected), sortind)

\* mutant: the q-values returned in sorted order (returnsorted=True)
M_fdr_bh_sorted(pvals) ==
    Clip1(fdrcorrection(take(pvals, argsort(pvals))))

multipletests_fdr_bh(pvals) ==
    LET sortind == argsort(pvals)
        sorted == take(pvals, sortind)
    IN  Scatter(Clip1(fdrcorrection(sorted)), sortind)

----------------------------------------------------------------------------
(* feedback_form_basic_stats.py: analyze_version_differences_v2            *)

FEEDBACK_FORM_QUESTIONS ==
    << "How straightforward was this pub?",
       "Could this pub be useful in your own work?",
       "Were you able to find all the information you'd need to assess or reuse this work?",
       "Does the evidence presented support the claims?" >>

NumQuestions == Len(FEEDBACK_FORM_QUESTIONS)

\* the significance threshold 0.05 of the verdict lines
Alpha == Num(5, 100)

\* chi2_contingency raises ValueError on a table without data
Raises == [k |-> "raise", n |-> 0, d |-> 0]

\* raw chi-square p-values the model draws for a question's table
PVals ==
    { Num(0, 1), Num(1, 100), Num(1, 80), Num(1, 50), Num(1, 25),
      Num(1, 5), Num(1, 2), Num(1, 1) }

\* what chi2_contingency(pd.crosstab(...)) yields for a question
TableOutcomes == PVals \cup {Raises}

InitFeedback ==
    /\ tables \in [1..NumQuestions -> TableOutcomes]
    /\ pc = "test"
    /\ idx = 1
    /\ analysis_results = << >>
    /\ p_bonferroni = << >>
    /\ q_fdr = << >>
    /\ output = << >>
    /\ rows = << >>
    /\ stats_v1 = NotCalled
    /\ stats_v2 = NotCalled
    /\ effects = NotCalled
    /\ effects_swapped = NotCalled
    /\ comparisons = NotCalled
    /\ fault = "none"
    /\ WelchIdle /\ ScrapeIdle /\ MainIdle

\* mutant: a failed test is recorded with a NaN p-value and the loop goes on
M_RunTest_records_nan ==
    /\ pc = "test"
    /\ analysis_results' =
          Append(analysis_results,
                 [question |-> FEEDBACK_FORM_QUESTIONS[idx],
                  p_raw |-> IF tables[idx] = Raises THEN NaN ELSE tables[idx],
                  p_bonferroni |-> Unset,
                  q_fdr |-> Unset])
    /\ IF idx = NumQuestions
       THEN pc' = "correct" /\ idx' = 1
       ELSE pc' = "test" /\ idx' = idx + 1
    /\ UNCHANGED <<tables, p_bonferroni, q_fdr, output, svars, ovars>>

\* one iteration of the loop of lines 31-42
RunTest ==
    /\ pc = "test"
    /\ IF tables[idx] = Raises
       THEN /\ pc' = "raised"
            /\ UNCHANGED <<idx, analysis_results>>
       ELSE /\ analysis_results' =
                  Append(analysis_results,
                         [question |-> FEEDBACK_FORM_QUESTIONS[idx],
                          p_raw |-> tables[idx],
                          p_bonferroni |-> Unset,
                          q_fdr |-> Unset])
            /\ IF idx = NumQuestions
               THEN pc' = "correct" /\ idx' = 1
               ELSE pc' = "test" /\ idx' = idx + 1
    /\ UNCHANGED <<tables, p_bonferroni, q_fdr, output, svars, ovars>>

raw_p_values == [j \in 1..Len(analysis_results) |-> analysis_results[j].p_raw]

\* mutant: the first correction sorts the family in place, so the second
\* correction and every later reader see another family
M_Correct_sorts_in_place ==
    /\ pc = "correct"
    /\ p_bonferroni' = multipletests_bonferroni(raw_p_values)
    /\ analysis_results' =
          [j \in 1..Len(analysis_results) |->
              [analysis_results[j] EXCEPT
                  !.p_raw = take(raw_p_values, argsort(raw_p_values))[j]]]
    /\ q_fdr' = multipletests_fdr_bh(take(raw_p_values, argsort(raw_p_values)))
    /\ pc' = "attach"
    /\ idx' = 1
    /\ UNCHANGED <<tables, output, svars, ovars>>

\* mutant: the two adjusted arrays stored under each other's name
M_Correct_swapped ==
    /\ pc = "correct"
    /\ p_bonferroni' = multipletests_fdr_bh(raw_p_values)
    /\ q_fdr' = multipletests_bonferroni(raw_p_values)
    /\ pc' = "attach"
    /\ idx' = 1
    /\ UNCHANGED <<tables, analysis_results, output, svars, ovars>>

\* lines 45-51
Correct ==
    /\ pc = "correct"
    /\ p_bonferroni' = multipletests_bonferroni(raw_p_values)
    /\ q_fdr' = multipletests_fdr_bh(raw_p_values)
    /\ pc' = "attach"
    /\ idx' = 1
    /\ UNCHANGED <<tables, analysis_results, output, svars, ovars>>

\* mutant: the adjusted arrays read from the far end
M_Attach_reversed ==
    /\ pc = "attach"
    /\ analysis_results' =
          [analysis_results EXCEPT ![idx] =
              [@ EXCEPT !.p_bonferroni = p_bonferroni[Len(p_bonferroni) + 1 - idx],
                        !.q_fdr = q_fdr[Len(q_fdr) + 1 - idx]]]
    /\ IF idx = Len(analysis_results)
       THEN pc' = "print" /\ idx' = 1
       ELSE pc' = "attach" /\ idx' = idx + 1
    /\ UNCHANGED <<tables, p_bonferroni, q_fdr, output, svars, ovars>>

\* mutant: the loop stops before the last result
M_Attach_truncating ==
    /\ pc = "attach"
    /\ analysis_results' =
          [analysis_results EXCEPT ![idx] =
              [@ EXCEPT !.p_bonferroni = p_bonferroni[idx], !.q_fdr = q_fdr[idx]]]
    /\ IF idx >= Len(analysis_results) - 1
       THEN pc' = "print" /\ idx' = 1
       ELSE pc' = "attach" /\ idx' = idx + 1
    /\ UNCHANGED <<tables, p_bonferroni, q_fdr, output, svars, ovars>>

\* mutant: the q-value also replaces the raw p-value of the result
M_Attach_overwrites_raw ==
    /\ pc = "attach"
    /\ analysis_results' =
          [analysis_results EXCEPT ![idx] =
              [@ EXCEPT !.p_raw = q_fdr[idx],
                        !.p_bonferroni = p_bonferroni[idx], !.q_fdr = q_fdr[idx]]]
    /\ IF idx = Len(analysis_results)
       THEN pc' = "print" /\ idx' = 1
       ELSE pc' = "attach" /\ idx' = idx + 1
    /\ UNCHANGED <<tables, p_bonferroni, q_fdr, output, svars, ovars>>

\* one iteration of the loop of lines 54-56
Attach ==
    /\ pc = "attach"
    /\ analysis_results' =
          [analysis_results EXCEPT ![idx] =
              [@ EXCEPT !.p_bonferroni = p_bonferroni[idx], !.q_fdr = q_fdr[idx]]]
    /\ IF idx = Len(analysis_results)
       THEN pc' = "print" /\ idx' = 1
       ELSE pc' = "attach" /\ idx' = idx + 1
    /\ UNCHANGED <<tables, p_bonferroni, q_fdr, output, svars, ovars>>

\* mutant: the FDR branch tested first
M_Verdict_fdr_first(res) ==
    IF FLt(res.q_fdr, Alpha) THEN "Significant after FDR correction."
    ELSE IF FLt(res.p_bonferroni, Alpha) THEN "Significant after Bonferroni correction."
    ELSE "Not significant after multiple testing correction."

\* lines 82-87
Verdict(res) ==
    IF FLt(res.p_bonferroni, Alpha) THEN "Significant after Bonferroni correction."
    ELSE IF FLt(res.q_fdr, Alpha) THEN "Significant after FDR correction."
    ELSE "Not significant after multiple testing correction."

\* one iteration of the loop of lines 59-89
PrintResult ==
    /\ pc = "print"
    /\ output' = Append(output,
                        [question |-> analysis_results[idx].question,
                         verdict |-> Verdict(analysis_results[idx])])
    /\ IF idx = Len(analysis_results)
       THEN pc' = "done" /\ idx' = 1
       ELSE pc' = "print" /\ idx' = idx + 1
    /\ UNCHANGED <<tables, analysis_results, p_bonferroni, q_fdr, svars, ovars>>

NextFeedback == RunTest \/ Correct \/ Attach \/ PrintResult

SpecFeedback == InitFeedback /\ [][NextFeedback]_vars

----------------------------------------------------------------------------
(* Properties of the multiple-testing correction (SpecFeedback).           *)

\* the corrections have been computed
Corrected == pc \in {"attach", "print", "done"}

InUnit(p) == FLe(Num(0, 1), p) /\ FLe(p, One)

MinOf(S) == CHOOSE x \in S : \A y \in S : FLe(x, y)

CountLt(ps, v) == Cardinality({j \in 1..Len(ps) : FLt(ps[j], v)})

CountLe(ps, v) == Cardinality({j \in 1..Len(ps) : FLe(ps[j], v)})

\* the j-th smallest value of the family
KthSmallest(ps, j) ==
    CHOOSE v \in {ps[a] : a \in 1..Len(ps)} : CountLt(ps, v) < j /\ j <= CountLe(ps, v)

\* the ascending ranks entry i may take (several when its value is tied)
RanksOf(ps, i) == {r \in 1..Len(ps) : CountLt(ps, ps[i]) < r /\ r <= CountLe(ps, ps[i])}

\* min over j >= r of (j-th smallest p) * k / j
StepUp(ps, r) ==
    MinOf({FDiv(FMul(KthSmallest(ps, j), FromInt(Len(ps))), FromInt(j)) : j \in r..Len(ps)})

MinOneTimesK(p, k) ==
    IF FLt(One, FMul(p, FromInt(k))) THEN One ELSE FMul(p, FromInt(k))

\* C3: for a family of k raw p-values in [0,1] the Bonferroni value of
\* entry i is min(1, raw_p[i] * k), and raw_p[i] <= adjusted_p[i] <= 1.
C3_Bonferroni ==
    Corrected =>
        \A i \in 1..Len(raw_p_values) :
            InUnit(raw_p_values[i]) =>
                /\ p_bonferroni[i] = MinOneTimesK(raw_p_values[i], Len(raw_p_values))
                /\ FLe(raw_p_values[i], p_bonferroni[i])
                /\ FLe(p_bonferroni[i], One)

\* a corrected family with one capped and one uncapped, strictly raised entry
C3_Witness ==
    /\ Corrected
    /\ \E i \in 1..Len(raw_p_values) :
          FLt(One, FMul(raw_p_values[i], FromInt(4))) /\ p_bonferroni[i] = One
    /\ \E i \in 1..Len(raw_p_values) :
          FLt(raw_p_values[i], p_bonferroni[i]) /\ FLt(p_bonferroni[i], One)

\* C4: the BH q-value of the entry of ascending rank r is the minimum over
\* all ranks j >= r of (j-th smallest raw p) * k / j, returned at the
\* entry's original position.
C4_BHStepUp ==
    Corrected =>
        \A i \in 1..Len(raw_p_values) :
            \A r \in RanksOf(raw_p_values, i) :
                q_fdr[i] = StepUp(raw_p_values, r)

\* a family out of ascending order in which the running minimum lowers a q-value
C4_Witness ==
    /\ Corrected
    /\ \E a, b \in 1..Len(raw_p_values) : a < b /\ FLt(raw_p_values[b], raw_p_values[a])
    /\ \E i \in 1..Len(raw_p_values) :
          \E r \in RanksOf(raw_p_values, i) :
              FLt(q_fdr[i], FDiv(FMul(raw_p_values[i], FromInt(Len(raw_p_values))), FromInt(r)))

\* C5: read in ascending order of raw p-value the q-values are
\* non-decreasing: raw_p[a] <= raw_p[b] implies q[a] <= q[b].
C5_QMonotone ==
    Corrected =>
        \A a, b \in 1..Len(raw_p_values) :
            FLe(raw_p_values[a], raw_p_values[b]) => FLe(q_fdr[a], q_fdr[b])

\* four distinct raw p-values, out of order, with strictly increasing q-values
C5_Witness ==
    /\ Corrected
    /\ FLt(raw_p_values[3], raw_p_values[1])
    /\ \A a, b \in 1..Len(raw_p_values) :
          FLt(raw_p_values[a], raw_p_values[b]) => FLt(q_fdr[a], q_fdr[b])
    /\ \A a, b \in 1..Len(raw_p_values) : a # b => raw_p_values[a] # raw_p_values[b]

\* the adjusted values have been attached to result j
Attached(j) == pc \in {"print", "done"} \/ (pc = "attach" /\ j < idx)

\* C6: the family is assembled in the order of the question list, and the
\* adjusted values attached to a question are those computed from that
\* question's own raw p-value, for every arrangement of p-values.
C6_PositionalJoin ==
    \A j \in 1..Len(analysis_results) :
        /\ analysis_results[j].question = FEEDBACK_FORM_QUESTIONS[j]
        /\ analysis_results[j].p_raw = tables[j]
        /\ Attached(j) =>
              /\ analysis_results[j].p_bonferroni = MinOneTimesK(tables[j], NumQuestions)
              /\ \A r \in RanksOf(tables, j) :
                    analysis_results[j].q_fdr = StepUp(tables, r)

\* every question has its values attached, the four raw p-values all differ
\* and are in descending order
C6_Witness ==
    /\ pc = "done"
    /\ \A a, b \in 1..NumQuestions : a < b => FLt(tables[b], tables[a])
    /\ \A j \in 1..NumQuestions : analysis_results[j].q_fdr # Unset

BonfLine == "Significant after Bonferroni correction."

FdrLine == "Significant after FDR correction."

NotLine == "Not significant after multiple testing correction."

\* C7: one verdict per question, chosen with alpha = 0.05: Bonferroni if
\* bonferroni_adjusted_p < alpha, otherwise FDR if fdr_q < alpha, otherwise
\* not significant.
C7_Verdict ==
    /\ pc = "done" => Len(output) = NumQuestions
    /\ \A j \in 1..Len(output) :
          LET res == analysis_results[j]
              v == output[j].verdict
          IN  /\ output[j].question = FEEDBACK_FORM_QUESTIONS[j]
              /\ v \in {BonfLine, FdrLine, NotLine}
              /\ v = BonfLine <=> FLt(res.p_bonferroni, Num(5, 100))
              /\ v = FdrLine <=> ~FLt(res.p_bonferroni, Num(5, 100))
                                    /\ FLt(res.q_fdr, Num(5, 100))
              /\ v = NotLine <=> ~FLt(res.p_bonferroni, Num(5, 100))
                                    /\ ~FLt(res.q_fdr, Num(5, 100))

\* a finished run that printed each of the three verdicts
C7_Witness ==
    /\ pc = "done"
    /\ \A v \in {BonfLine, FdrLine, NotLine} :
          \E j \in 1..Len(output) : output[j].verdict = v

\* the scenario family [0.01, 0.20, 0.04, 0.50]
ScenarioFamily == << Num(1, 100), Num(1, 5), Num(1, 25), Num(1, 2) >>

\* x shows as milli/1000 when rounded to three decimals
Approx3(x, milli) ==
    /\ FLe(FSub(Num(milli, 1000), Num(1, 2000)), x)
    /\ FLe(x, FAdd(Num(milli, 1000), Num(1, 2000)))

\* C8 as stated: for [0.01, 0.20, 0.04, 0.50] the q-values in original
\* order are approximately [0.04, 0.333, 0.08, 0.50].
C8_AsStated ==
    (Corrected /\ raw_p_values = ScenarioFamily) =>
        /\ Approx3(q_fdr[1], 40)
        /\ Approx3(q_fdr[2], 333)
        /\ Approx3(q_fdr[3], 80)
        /\ Approx3(q_fdr[4], 500)

\* C8 amended: for [0.01, 0.20, 0.04, 0.50] the q-values in original order
\* are approximately [0.04, 0.267, 0.08, 0.50] (0.20 * 4 / 3 = 0.2667).
C8_Scenario ==
    (Corrected /\ raw_p_values = ScenarioFamily) =>
        /\ Approx3(q_fdr[1], 40)
        /\ Approx3(q_fdr[2], 267)
        /\ Approx3(q_fdr[3], 80)
        /\ Approx3(q_fdr[4], 500)

\* the scenario family has been corrected
C8_Witness == Corrected /\ raw_p_values = ScenarioFamily /\ Len(q_fdr) = 4

----------------------------------------------------------------------------
(* calculate_basic_pub_stats.py: values that involve a square root or the  *)
(* Student-t quantile are kept in exact symbolic form:                     *)
(*   [k |-> "sroot", s, sq]      the real  s * sqrt(sq),  s in {-1, 0, 1}  *)
(*   [k |-> "tci", c, s, df, sq] the real  c + s * t.ppf(0.975, df) * sqrt(sq) *)

\* np.sqrt of a float that is NaN or a non-negative number
SqrtV(v) ==
    IF v.k # "num" \/ v.n < 0 THEN NaN
    ELSE [k |-> "sroot", s |-> Sgn(v.n), sq |-> v]

\* q / np.sqrt(r), as numpy float64 division
DivBySqrt(q, r) ==
    IF q.k # "num" \/ r.k # "num" \/ r.n < 0 THEN NaN
    ELSE IF r.n = 0 THEN (IF q.n = 0 THEN NaN ELSE Inf(Sgn(q.n)))
    ELSE [k |-> "sroot", s |-> Sgn(q.n), sq |-> FDiv(FMul(q, q), r)]

\* x * j for x = q / sqrt(r) and a finite float j
MulByNum(x, j) ==
    IF x.k = "nan" \/ j.k # "num" THEN NaN
    ELSE IF x.k = "inf" THEN (IF j.n = 0 THEN NaN ELSE Inf(x.n * Sgn(j.n)))
    ELSE [k |-> "sroot", s |-> x.s * Sgn(j.n), sq |-> FMul(x.sq, FMul(j, j))]

\* c + s * t.ppf(0.975, df) * sqrt(sq); t.ppf is NaN unless df > 0
TBound(c, s, df, sq) ==
    IF c.k # "num" \/ df.k # "num" \/ sq.k # "num" THEN NaN
    ELSE IF df.n <= 0 \/ sq.n < 0 THEN NaN
    ELSE IF sq.n = 0 THEN c
    ELSE [k |-> "tci", c |-> c, s |-> s, df |-> df, sq |-> sq]

\* stats.t.interval(0.95, df, loc, scale): NaN bounds unless scale > 0
t_interval(df, loc, scale2) ==
    IF scale2.k # "num" \/ scale2.n <= 0 THEN <<NaN, NaN>>
    ELSE <<TBound(loc, -1, df, scale2), TBound(loc, 1, df, scale2)>>

----------------------------------------------------------------------------
(* pandas: pd.to_numeric(errors="coerce"), dropna, mean, var, quantile     *)

Digits == <<"0", "1", "2", "3", "4", "5", "6", "7", "8", "9">>

IsDigit(c) == \E i \in 1..10 : Digits[i] = c

DigitVal(c) == (CHOOSE i \in 1..10 : Digits[i] = c) - 1

RECURSIVE ParseDigits(_, _)
ParseDigits(chars, acc) ==
    IF chars = << >> THEN acc
    ELSE ParseDigits(Tail(chars), 10 * acc + DigitVal(Head(chars)))

\* a raw cell: a number, a string (its characters) or a missing value
NumCell(v) == [t |-> "num", v |-> v, s |-> << >>]

StrCell(chars) == [t |-> "str", v |-> 0, s |-> chars]

MissingCell == [t |-> "missing", v |-> 0, s |-> << >>]

\* pd.to_numeric(errors="coerce") on one cell
to_numeric(cell) ==
    IF cell.t = "num" THEN FromInt(cell.v)
    ELSE IF cell.t = "str" /\ cell.s # << >> /\ \A i \in 1..Len(cell.s) : IsDigit(cell.s[i])
         THEN FromInt(ParseDigits(cell.s, 0))
    ELSE NaN

NotNaN(x) == x.k # "nan"

\* Series.dropna()
dropna(xs) == SelectSeq(xs, NotNaN)

\* mutant: the coerced series kept whole (dropna left out)
M_coerce_keep_nan(data_series) ==
    [i \in 1..Len(data_series) |-> to_numeric(data_series[i])]

\* pd.to_numeric(data_series, errors="coerce").dropna()
coerce(data_series) ==
    dropna([i \in 1..Len(data_series) |-> to_numeric(data_series[i])])

RECURSIVE SumSeq(_)
SumSeq(xs) == IF xs = << >> THEN Zero ELSE FAdd(Head(xs), SumSeq(Tail(xs)))

\* Series.mean(): NaN on an empty series
mean(xs) == IF Len(xs) = 0 THEN NaN ELSE FDiv(SumSeq(xs), FromInt(Len(xs)))

\* Series.var(ddof=1): NaN when n <= ddof
var(xs) ==
    IF Len(xs) < 2 THEN NaN
    ELSE LET m == mean(xs)
             sqr == [i \in 1..Len(xs) |-> FMul(FSub(xs[i], m), FSub(xs[i], m))]
         IN  FDiv(SumSeq(sqr), FromInt(Len(xs) - 1))

RECURSIVE InsertSorted(_, _)
InsertSorted(x, sorted) ==
    IF sorted = << >> THEN <<x>>
    ELSE IF FLe(x, Head(sorted)) THEN <<x>> \o sorted
    ELSE <<Head(sorted)>> \o InsertSorted(x, Tail(sorted))

RECURSIVE sort_values(_)
sort_values(xs) == IF xs = << >> THEN << >> ELSE InsertSorted(Head(xs), sort_values(Tail(xs)))

\* Series.quantile(qn/qd), linear interpolation; needs a non-empty series
quantile(xs, qn, qd) ==
    LET sorted == sort_values(xs)
        h == (Len(xs) - 1) * qn
        lo == h \div qd
        frac == Num(h % qd, qd)
    IN  IF h % qd = 0 THEN sorted[lo + 1]
        ELSE FAdd(sorted[lo + 1], FMul(frac, FSub(sorted[lo + 2], sorted[lo + 1])))

----------------------------------------------------------------------------
(* calculate_basic_pub_stats.py: the helper functions                      *)

\* mutant: the small-sample guard tests n < 1
M_descriptive_guard_lt1(data_series) ==
    LET series == coerce(data_series)
        n == Len(series)
    IN  IF n < 1
        THEN [n |-> n, mean |-> NaN, std |-> NaN, sem |-> NaN, ci_95 |-> <<NaN, NaN>>,
              median |-> NaN, q1 |-> NaN, q3 |-> NaN]
        ELSE [n |-> n, mean |-> mean(series), std |-> SqrtV(var(series)),
              sem |-> SqrtV(FDiv(var(series), FromInt(n))),
              ci_95 |-> t_interval(FromInt(n - 1), mean(series),
                                   FDiv(var(series), FromInt(n))),
              median |-> quantile(series, 1, 2),
              q1 |-> quantile(series, 1, 4),
              q3 |-> quantile(series, 3, 4)]

\* lines 11-43
calculate_descriptive_stats(data_series) ==
    LET series == coerce(data_series)
        n == Len(series)
    IN  IF n < 2
        THEN [n |-> n, mean |-> NaN, std |-> NaN, sem |-> NaN, ci_95 |-> <<NaN, NaN>>,
              median |-> NaN, q1 |-> NaN, q3 |-> NaN]
        ELSE [n |-> n, mean |-> mean(series), std |-> SqrtV(var(series)),
              sem |-> SqrtV(FDiv(var(series), FromInt(n))),
              ci_95 |-> t_interval(FromInt(n - 1), mean(series),
                                   FDiv(var(series), FromInt(n))),
              median |-> quantile(series, 1, 2),
              q1 |-> quantile(series, 1, 4),
              q3 |-> quantile(series, 3, 4)]

\* mutant: the weighted sum of variances not divided by n1 + n2 - 2
M_pooled_var_no_div(s1, s2) ==
    FAdd(FMul(FromInt(Len(s1) - 1), var(s1)), FMul(FromInt(Len(s2) - 1), var(s2)))

\* line 92 under the square root: the pooled variance of two clean samples
pooled_var(s1, s2) ==
    FDiv(FAdd(FMul(FromInt(Len(s1) - 1), var(s1)), FMul(FromInt(Len(s2) - 1), var(s2))),
         FromInt(Len(s1) + Len(s2) - 2))

\* mutant: the difference scaled by the first group's SD alone
M_cohen_d_first_sd(s1, s2) == DivBySqrt(FSub(mean(s1), mean(s2)), var(s1))

\* lines 92-93: d = (m1 - m2) / pooled_std
cohen_d(s1, s2) == DivBySqrt(FSub(mean(s1), mean(s2)), pooled_var(s1, s2))

\* line 94: j = 1 - 3 / (4 * (n1 + n2) - 9)
bias_j(n1, n2) == FSub(One, FDiv(FromInt(3), FromInt(4 * (n1 + n2) - 9)))

\* mutant: the difference scaled by the second group's SD
M_glass_delta_second_sd(s1, s2) == DivBySqrt(FSub(mean(s1), mean(s2)), var(s2))

\* lines 98-99: glass_delta = (m1 - m2) / sd1
glass_delta_of(s1, s2) == DivBySqrt(FSub(mean(s1), mean(s2)), var(s1))

\* mutant: the variances added without dividing by the group sizes
M_se_diff2_no_n(s1, s2) == FAdd(var(s1), var(s2))

\* line 102 under the square root: v1 / n1 + v2 / n2
se_diff2(s1, s2) ==
    FAdd(FDiv(var(s1), FromInt(Len(s1))), FDiv(var(s2), FromInt(Len(s2))))

\* line 104: the divisor of the df formula
welch_divisor(v1, n1, v2, n2) ==
    FAdd(FDiv(FMul(v1, v1), FromInt(n1 * n1 * (n1 - 1))),
         FDiv(FMul(v2, v2), FromInt(n2 * n2 * (n2 - 1))))

\* mutant: the divisor terms divided by n^3 instead of n^2 * (n - 1)
M_welch_satterthwaite_n3(v1, n1, v2, n2) ==
    LET num == FAdd(FDiv(v1, FromInt(n1)), FDiv(v2, FromInt(n2)))
    IN  FDiv(FMul(num, num),
             FAdd(FDiv(FMul(v1, v1), FromInt(n1 * n1 * n1)),
                  FDiv(FMul(v2, v2), FromInt(n2 * n2 * n2))))

\* lines 103-105 on the variances and sizes
welch_satterthwaite(v1, n1, v2, n2) ==
    LET num == FAdd(FDiv(v1, FromInt(n1)), FDiv(v2, FromInt(n2)))
    IN  FDiv(FMul(num, num), welch_divisor(v1, n1, v2, n2))

\* mutant: the second group's term left out of the divisor
M_df_welch_first_only(s1, s2) ==
    FDiv(FMul(se_diff2(s1, s2), se_diff2(s1, s2)),
         FDiv(FMul(var(s1), var(s1)), FromInt(Len(s1) * Len(s1) * (Len(s1) - 1))))

\* lines 103-105
df_welch(s1, s2) ==
    FDiv(FMul(se_diff2(s1, s2), se_diff2(s1, s2)),
         welch_divisor(var(s1), Len(s1), var(s2), Len(s2)))

\* lines 106-108: mean_diff -/+ t_crit * se_diff
ci_diff(s1, s2) ==
    LET mean_diff == FSub(mean(s1), mean(s2))
    IN  <<TBound(mean_diff, -1, df_welch(s1, s2), se_diff2(s1, s2)),
          TBound(mean_diff, 1, df_welch(s1, s2), se_diff2(s1, s2))>>

\* the largest of two integers
MaxInt(a, b) == IF a >= b THEN a ELSE b

\* the sum f[1] + ... + f[k] of an integer sequence
RECURSIVE SumTo(_, _)
SumTo(f, k) == IF k = 0 THEN 0 ELSE f[k] + SumTo(f, k - 1)

CountLess(x, xs) == Cardinality({i \in 1..Len(xs) : FLt(xs[i], x)})

CountEq(x, xs) == Cardinality({i \in 1..Len(xs) : FEq(xs[i], x)})

\* twice the midrank of x among xs (rankdata, method "average")
rank2(x, xs) == 2 * CountLess(x, xs) + CountEq(x, xs) + 1

\* line 74, stats.ttest_ind(s1, s2, equal_var=False).pvalue on clean samples:
\* NaN when a group has fewer than 2 values or when 0 is divided by 0, 0 for
\* an infinite statistic, 1 for a zero statistic, otherwise the two-sided
\* tail 2 * t.sf(sqrt(t2), df) strictly between 0 and 1
ttest_ind(s1, s2) ==
    IF Len(s1) < 2 \/ Len(s2) < 2 THEN NaN
    ELSE LET diff == FSub(mean(s1), mean(s2))
             vn1 == FDiv(var(s1), FromInt(Len(s1)))
             vn2 == FDiv(var(s2), FromInt(Len(s2)))
             denom2 == FAdd(vn1, vn2)
             df == FDiv(FMul(denom2, denom2),
                        FAdd(FDiv(FMul(vn1, vn1), FromInt(Len(s1) - 1)),
                             FDiv(FMul(vn2, vn2), FromInt(Len(s2) - 1))))
         IN  IF denom2.n = 0 THEN (IF diff.n = 0 THEN NaN ELSE Zero)
             ELSE IF diff.n = 0 THEN One
             ELSE [k |-> "t_sf2", t2 |-> FDiv(FMul(diff, diff), denom2), df |-> df]

\* mutant: the statistic of the first sample used instead of max(U1, U2)
M_mwu_first_U(x, y) ==
    LET n1 == Len(x)
        n2 == Len(y)
        n == n1 + n2
        xy == x \o y
        R1 == SumTo([i \in 1..n1 |-> rank2(x[i], xy)], n1)
        U1 == R1 - n1 * (n1 + 1)
        numerator == Num(U1 - n1 * n2 - 1, 2)
        tie_term == SumTo([i \in 1..n |-> CountEq(xy[i], xy) * CountEq(xy[i], xy) - 1], n)
        s2 == FMul(Num(n1 * n2, 12), FSub(FromInt(n + 1), Num(tie_term, n * (n - 1))))
    IN  IF numerator.n <= 0 \/ s2.n = 0 THEN One
        ELSE [k |-> "norm_sf2", z2 |-> FDiv(FMul(numerator, numerator), s2)]

\* the asymptotic two-sided p-value of two non-empty samples:
\* U = max(U1, U2), z = (U - n1*n2/2 - 1/2) / s with the tie-corrected s,
\* p = clip(2 * norm.sf(z), 0, 1), which is 1 when z <= 0 (s = 0 included)
mwu_asymptotic(x, y) ==
    LET n1 == Len(x)
        n2 == Len(y)
        n == n1 + n2
        xy == x \o y
        R1 == SumTo([i \in 1..n1 |-> rank2(x[i], xy)], n1)
        U1 == R1 - n1 * (n1 + 1)
        U == MaxInt(U1, 2 * n1 * n2 - U1)
        numerator == Num(U - n1 * n2 - 1, 2)
        tie_term == SumTo([i \in 1..n |-> CountEq(xy[i], xy) * CountEq(xy[i], xy) - 1], n)
        s2 == FMul(Num(n1 * n2, 12), FSub(FromInt(n + 1), Num(tie_term, n * (n - 1))))
    IN  IF numerator.n <= 0 \/ s2.n = 0 THEN One
        ELSE [k |-> "norm_sf2", z2 |-> FDiv(FMul(numerator, numerator), s2)]

\* mutant: the rank test is undefined for groups of fewer than 2 values
M_mannwhitneyu_needs_two(x, y) ==
    IF Len(x) < 2 \/ Len(y) < 2 THEN NaN ELSE mwu_asymptotic(x, y)

\* line 77, stats.mannwhitneyu(s1, s2, alternative="two-sided",
\* method="asymptotic").pvalue when it returns: NaN on an empty sample
mannwhitneyu(x, y) ==
    IF Len(x) = 0 \/ Len(y) = 0 THEN NaN ELSE mwu_asymptotic(x, y)

\* lines 62-79
compare_groups(series1, series2) ==
    LET s1 == coerce(series1)
        s2 == coerce(series2)
    IN  [welch_t_p_value |-> ttest_ind(s1, s2), mwu_p_value |-> mannwhitneyu(s1, s2)]

\* line 77: on an empty sample mannwhitneyu raises ValueError in SciPy
\* releases that validate the sizes and returns NaN in the later ones
compare_groups_raises(series1, series2) ==
    IF Len(coerce(series1)) = 0 \/ Len(coerce(series2)) = 0 THEN BOOLEAN ELSE {FALSE}

\* line 102: v / n with n = 0 divides the float NaN that pandas returns for
\* an empty series by the int 0 (ZeroDivisionError), unless the NaN is a
\* numpy scalar
effects_raises(series1, series2) ==
    IF Len(coerce(series1)) = 0 \/ Len(coerce(series2)) = 0 THEN BOOLEAN ELSE {FALSE}

\* lines 82-114
calculate_mean_difference_effects(series1, series2) ==
    LET s1 == coerce(series1)
        s2 == coerce(series2)
    IN  [hedges_g |-> MulByNum(cohen_d(s1, s2), bias_j(Len(s1), Len(s2))),
         glass_delta |-> glass_delta_of(s1, s2),
         mean_diff_ci_95 |-> ci_diff(s1, s2)]

----------------------------------------------------------------------------
(* The helper functions applied to the two version groups of a table, as   *)
(* main_v2_analysis applies them.                                          *)

\* the largest number of table rows the model draws
MaxRows == 4

Versions == {"v1.0", "v2.0"}

\* raw cells the model draws for a row's value column
Cells == { NumCell(1), NumCell(2), StrCell(<<"4">>), StrCell(<<"a", "b", "c">>), MissingCell }

Row == [version : Versions, cell : Cells]

RowSeqs == UNION {[1..n -> Row] : n \in 0..MaxRows}

IsV1(r) == r.version = "v1.0"

IsV2(r) == r.version = "v2.0"

CellsOf(rs) == [i \in 1..Len(rs) |-> rs[i].cell]

\* the value column of the v1.0 rows and of the v2.0 rows
series_v1 == CellsOf(SelectSeq(rows, IsV1))

series_v2 == CellsOf(SelectSeq(rows, IsV2))

\* the two samples A = [10,12,11,13,9] and B = [20,18,19,17,21] as one table
ScenarioRows ==
    [i \in 1..10 |->
        IF i <= 5 THEN [version |-> "v1.0", cell |-> NumCell(<<10, 12, 11, 13, 9>>[i])]
        ELSE [version |-> "v2.0", cell |-> NumCell(<<20, 18, 19, 17, 21>>[i - 5])]]

InitStats ==
    /\ rows \in RowSeqs \cup {ScenarioRows}
    /\ pc = "describe"
    /\ stats_v1 = NotCalled
    /\ stats_v2 = NotCalled
    /\ effects = NotCalled
    /\ effects_swapped = NotCalled
    /\ comparisons = NotCalled
    /\ fault = "none"
    /\ WelchIdle /\ ScrapeIdle /\ MainIdle
    /\ tables = << >>
    /\ idx = 1
    /\ analysis_results = << >>
    /\ p_bonferroni = << >>
    /\ q_fdr = << >>
    /\ output = << >>

Describe ==
    /\ pc = "describe"
    /\ stats_v1' = calculate_descriptive_stats(series_v1)
    /\ stats_v2' = calculate_descriptive_stats(series_v2)
    /\ pc' = "compare"
    /\ UNCHANGED <<rows, effects, effects_swapped, comparisons, fault, fvars, ovars>>

Compare ==
    /\ pc = "compare"
    /\ \E raise \in compare_groups_raises(series_v1, series_v2) :
          IF raise
          THEN /\ fault' = "ValueError"
               /\ pc' = "faulted"
               /\ UNCHANGED comparisons
          ELSE /\ comparisons' = compare_groups(series_v1, series_v2)
               /\ pc' = "effects"
               /\ UNCHANGED fault
    /\ UNCHANGED <<rows, stats_v1, stats_v2, effects, effects_swapped, fvars, ovars>>

Effects ==
    /\ pc = "effects"
    /\ \E raise \in effects_raises(series_v1, series_v2) :
          IF raise
          THEN /\ fault' = "ZeroDivisionError"
               /\ pc' = "faulted"
               /\ UNCHANGED effects
          ELSE /\ effects' = calculate_mean_difference_effects(series_v1, series_v2)
               /\ pc' = "swapped"
               /\ UNCHANGED fault
    /\ UNCHANGED <<rows, stats_v1, stats_v2, effects_swapped, comparisons, fvars, ovars>>

EffectsSwapped ==
    /\ pc = "swapped"
    /\ \E raise \in effects_raises(series_v2, series_v1) :
          IF raise
          THEN /\ fault' = "ZeroDivisionError"
               /\ pc' = "faulted"
               /\ UNCHANGED effects_swapped
          ELSE /\ effects_swapped' = calculate_mean_difference_effects(series_v2, series_v1)
               /\ pc' = "returned"
               /\ UNCHANGED fault
    /\ UNCHANGED <<rows, stats_v1, stats_v2, effects, comparisons, fvars, ovars>>

NextStats == Describe \/ Compare \/ Effects \/ EffectsSwapped

SpecStats == InitStats /\ [][NextStats]_vars

\* a run of either script
SpecAll == (InitFeedback \/ InitStats) /\ [][NextFeedback \/ NextStats]_vars

FeedbackIdle ==
    /\ tables = << >> /\ idx = 1 /\ analysis_results = << >>
    /\ p_bonferroni = << >> /\ q_fdr = << >> /\ output = << >>

StatsIdle ==
    /\ rows = << >> /\ stats_v1 = NotCalled /\ stats_v2 = NotCalled
    /\ effects = NotCalled /\ effects_swapped = NotCalled
    /\ comparisons = NotCalled /\ fault = "none"

----------------------------------------------------------------------------
(* The Welch-Satterthwaite df of lines 103-105 as a function of the group  *)
(* sizes and variances.                                                    *)

\* the largest group size the model draws
MaxN == 4

\* the variances the model draws
VarVals == { Zero, Num(1, 2), One, FromInt(2), Num(9, 2), FromInt(100) }

InitWelch ==
    /\ welch_df \in [n1 : 2..MaxN, n2 : 2..MaxN, v1 : VarVals, v2 : VarVals,
                     divisor : {Unset}, df : {Unset}]
    /\ pc = "welch"
    /\ FeedbackIdle /\ StatsIdle /\ ScrapeIdle /\ MainIdle

ComputeDf ==
    /\ pc = "welch"
    /\ welch_df' =
          [welch_df EXCEPT
              !.divisor = welch_divisor(welch_df.v1, welch_df.n1, welch_df.v2, welch_df.n2),
              !.df = welch_satterthwaite(welch_df.v1, welch_df.n1, welch_df.v2, welch_df.n2)]
    /\ pc' = "welch_done"
    /\ UNCHANGED <<fvars, svars, web, requested, allowed, printed, csv, df_current,
                   calls, raised>>

NextWelch == ComputeDf

SpecWelch == InitWelch /\ [][NextWelch]_vars

----------------------------------------------------------------------------
(* pub_readability_stats.py: process_url and is_allowed_by_robots          *)

\* what requests.get and raise_for_status do for a URL
GetOutcomes == {"ok", "connection_error", "http_error"}

\* what the site answers: the robots.txt request and its body (rules that
\* allow or disallow the URL for "*", or bytes that are not UTF-8), the page
\* request and its body, and whether a metric of scireadability raises
Sites ==
    [robots_get : GetOutcomes, robots_body : {"allow", "disallow", "undecodable"},
     page_get : GetOutcomes, page_body : {"html", "undecodable"},
     metrics : {"ok", "raises"}]

InitScrape ==
    /\ web \in Sites
    /\ requested = << >>
    /\ allowed = "unset"
    /\ printed = FALSE
    /\ pc = "robots_get"
    /\ FeedbackIdle /\ StatsIdle /\ WelchIdle /\ MainIdle

\* mutant: a failed robots.txt request counts as permission
M_RobotsGet_fail_open ==
    /\ pc = "robots_get"
    /\ requested' = Append(requested, "robots.txt")
    /\ IF web.robots_get = "ok"
       THEN pc' = "robots_parse" /\ UNCHANGED allowed
       ELSE pc' = "check" /\ allowed' = "yes"
    /\ UNCHANGED <<web, printed, fvars, svars, welch_df, csv, df_current, calls, raised>>

\* lines 22-24: requests.get(robots_url) and raise_for_status(); an
\* exception is caught at line 28 and False is returned
RobotsGet ==
    /\ pc = "robots_get"
    /\ requested' = Append(requested, "robots.txt")
    /\ IF web.robots_get = "ok"
       THEN pc' = "robots_parse" /\ UNCHANGED allowed
       ELSE pc' = "check" /\ allowed' = "no"
    /\ UNCHANGED <<web, printed, fvars, svars, welch_df, csv, df_current, calls, raised>>

\* lines 26-30: decode, parse and can_fetch("*", url)
RobotsParse ==
    /\ pc = "robots_parse"
    /\ allowed' = IF web.robots_body = "allow" THEN "yes" ELSE "no"
    /\ pc' = "check"
    /\ UNCHANGED <<web, requested, printed, fvars, svars, welch_df, csv, df_current,
                   calls, raised>>

\* lines 126-128: process_url returns when the URL is not allowed
CheckAllowed ==
    /\ pc = "check"
    /\ pc' = IF allowed = "yes" THEN "page_get" ELSE "skipped"
    /\ UNCHANGED <<web, requested, allowed, printed, fvars, svars, welch_df, csv,
                   df_current, calls, raised>>

\* lines 133-138: the page request and the decoding of its body; an
\* exception is caught at line 146
PageGet ==
    /\ pc = "page_get"
    /\ requested' = Append(requested, "page")
    /\ pc' = IF web.page_get = "ok" /\ web.page_body = "html" THEN "clean" ELSE "failed"
    /\ UNCHANGED <<web, allowed, printed, fvars, svars, welch_df, csv, df_current,
                   calls, raised>>

\* lines 141-144: clean_text, which returns "" on any exception, and
\* print_readability_metrics, which computes every metric before printing
Metrics ==
    /\ pc = "clean"
    /\ IF web.metrics = "ok"
       THEN printed' = TRUE /\ pc' = "reported"
       ELSE UNCHANGED printed /\ pc' = "failed"
    /\ UNCHANGED <<web, requested, allowed, fvars, svars, welch_df, csv, df_current,
                   calls, raised>>

NextScrape == RobotsGet \/ RobotsParse \/ CheckAllowed \/ PageGet \/ Metrics

SpecScrape == InitScrape /\ [][NextScrape]_vars

----------------------------------------------------------------------------
(* calculate_basic_pub_stats.py: main_v2_analysis, as the sequence of      *)
(* helper calls it makes and the samples it passes to them.                *)

\* the largest number of pubs in the current CSV file
MaxPubs == 3

Statuses == {"Published", "In progress"}

\* raw cells of the workdays column: a positive number, zero, and text
WorkCells == { NumCell(3), NumCell(0), StrCell(<<"a">>) }

\* raw cells of the Flesch column
FleschCells == { NumCell(50) }

PubRows == [version : Versions, status : Statuses, work : WorkCells, fre : FleschCells]

\* the two files: the rows of the current file (ArbitraryID = position),
\* the v2.0 ids of the original file, and whether the Flesch column exists
CsvFiles ==
    [rows : UNION {[1..n -> PubRows] : n \in 0..MaxPubs},
     original_v2_ids : {{}, {1}},
     has_flesch : BOOLEAN]

InitMain ==
    /\ csv \in CsvFiles
    /\ df_current = << >>
    /\ calls = << >>
    /\ raised = "none"
    /\ pc = "main_clean"
    /\ FeedbackIdle /\ StatsIdle /\ WelchIdle /\ ScrapeIdle

\* a row with its columns coerced to numbers (lines 127, 140)
Coerced(i) ==
    [id |-> i, version |-> csv.rows[i].version, status |-> csv.rows[i].status,
     work |-> to_numeric(csv.rows[i].work), fre |-> to_numeric(csv.rows[i].fre)]

\* lines 128-132: rows whose workdays value is a number > 0
PositiveWork(r) == IsNum(r.work) /\ r.work.n > 0

\* lines 126-140
Clean ==
    /\ pc = "main_clean"
    /\ df_current' = SelectSeq([i \in 1..Len(csv.rows) |-> Coerced(i)], PositiveWork)
    /\ pc' = "main_published"
    /\ UNCHANGED <<csv, calls, raised, fvars, svars, welch_df, web, requested, allowed,
                   printed>>

\* mutant: the status test left out of the selection
M_published_any_status(version) ==
    LET Sel(r) == r.version = version
    IN  SelectSeq(df_current, Sel)

\* lines 143-150: the published rows of a version
published(version) ==
    LET Sel(r) == r.version = version /\ r.status = "Published"
    IN  SelectSeq(df_current, Sel)

\* lines 174-181: the published v2.0 rows that are, or are not, in the
\* original file
initial_v2_pubs ==
    LET Sel(r) == r.id \in csv.original_v2_ids
    IN  SelectSeq(published("v2.0"), Sel)

new_v2_pubs ==
    LET Sel(r) == r.id \notin csv.original_v2_ids
    IN  SelectSeq(published("v2.0"), Sel)

\* line 206: the rows that are not published
in_progress_pubs ==
    LET Sel(r) == r.status # "Published"
    IN  SelectSeq(df_current, Sel)

\* lines 218-222: the rows of a sample with a Flesch value in 0..100
fre_sample(sample) ==
    LET Sel(r) == IsNum(r.fre) /\ FLe(Zero, r.fre) /\ FLe(r.fre, FromInt(100))
    IN  SelectSeq(sample, Sel)

Call(fn, column, args) == [fn |-> fn, column |-> column, args |-> args]

\* two calculate_descriptive_stats calls
DescribeCalls(column, a, b) ==
    <<Call("calculate_descriptive_stats", column, <<a>>),
      Call("calculate_descriptive_stats", column, <<b>>)>>

\* how a compare_groups call followed by a calculate_mean_difference_effects
\* call on the same two samples can end
CompareOutcomes(a, b) ==
    IF Len(a) = 0 \/ Len(b) = 0 THEN {"none", "ValueError", "ZeroDivisionError"}
    ELSE {"none"}

\* the calls made until the exception, if any
CompareCalls(column, a, b, outcome) ==
    IF outcome = "ValueError" THEN <<Call("compare_groups", column, <<a, b>>)>>
    ELSE <<Call("compare_groups", column, <<a, b>>),
           Call("calculate_mean_difference_effects", column, <<a, b>>)>>

\* descriptive statistics of two samples, then their comparison
DescribeAndCompare(column, a, b, next) ==
    \E outcome \in CompareOutcomes(a, b) :
        /\ calls' = calls \o DescribeCalls(column, a, b) \o CompareCalls(column, a, b, outcome)
        /\ raised' = outcome
        /\ pc' = IF outcome = "none" THEN next ELSE "main_raised"

\* lines 156-171
PublishedStats ==
    /\ pc = "main_published"
    /\ DescribeAndCompare("work", published("v1.0"), published("v2.0"), "main_v2")
    /\ UNCHANGED <<csv, df_current, fvars, svars, welch_df, web, requested, allowed,
                   printed>>

\* lines 174-202
V2OverTime ==
    /\ pc = "main_v2"
    /\ DescribeAndCompare("work", initial_v2_pubs, new_v2_pubs, "main_in_progress")
    /\ UNCHANGED <<csv, df_current, fvars, svars, welch_df, web, requested, allowed,
                   printed>>

\* lines 205-211: descriptive statistics only
InProgress ==
    /\ pc = "main_in_progress"
    /\ calls' = Append(calls, Call("calculate_descriptive_stats", "work", <<in_progress_pubs>>))
    /\ pc' = IF csv.has_flesch THEN "main_flesch" ELSE "main_done"
    /\ UNCHANGED <<csv, df_current, raised, fvars, svars, welch_df, web, requested,
                   allowed, printed>>

\* lines 214-236
Flesch ==
    /\ pc = "main_flesch"
    /\ DescribeAndCompare("fre", fre_sample(published("v1.0")),
                          fre_sample(published("v2.0")), "main_done")
    /\ UNCHANGED <<csv, df_current, fvars, svars, welch_df, web, requested, allowed,
                   printed>>

NextMain == Clean \/ PublishedStats \/ V2OverTime \/ InProgress \/ Flesch

SpecMain == InitMain /\ [][NextMain]_vars

----------------------------------------------------------------------------
(* Properties of the helper functions (SpecStats).                         *)

\* the negation of a value in exact or symbolic form
NegV(x) ==
    IF x.k = "sroot" THEN [x EXCEPT !.s = -x.s]
    ELSE IF x.k = "tci" THEN [x EXCEPT !.c = FNeg(x.c), !.s = -x.s]
    ELSE FNeg(x)

\* the cell is a number or a string of decimal digits
ValidCell(cell) ==
    \/ cell.t = "num"
    \/ cell.t = "str" /\ Len(cell.s) > 0
                      /\ \A i \in 1..Len(cell.s) : cell.s[i] \in {Digits[d] : d \in 1..10}

ValidCount(series) == Cardinality({i \in 1..Len(series) : ValidCell(series[i])})

CellNumber(cell) == IF cell.t = "num" THEN cell.v ELSE ParseDigits(cell.s, 0)

RECURSIVE ValidSum(_)
ValidSum(series) ==
    IF series = << >> THEN 0
    ELSE (IF ValidCell(Head(series)) THEN CellNumber(Head(series)) ELSE 0)
         + ValidSum(Tail(series))

\* the descriptive results have been computed
Described == pc \in {"compare", "effects", "swapped", "returned", "faulted"}

AllUndefined(st) ==
    /\ IsNaN(st.mean) /\ IsNaN(st.std) /\ IsNaN(st.sem)
    /\ IsNaN(st.ci_95[1]) /\ IsNaN(st.ci_95[2])
    /\ IsNaN(st.median) /\ IsNaN(st.q1) /\ IsNaN(st.q3)

SmallSampleOk(series, st) ==
    ValidCount(series) < 2 =>
        /\ st # NotCalled
        /\ st.n = ValidCount(series)
        /\ AllUndefined(st)

\* C1: for a sample with fewer than 2 valid values
\* calculate_descriptive_stats returns the right n and NaN for every other
\* field, and raises no fault.
C1_SmallSample ==
    Described => SmallSampleOk(series_v1, stats_v1) /\ SmallSampleOk(series_v2, stats_v2)

\* one group has a single valid value among invalid ones, the other none
C1_Witness ==
    /\ Described
    /\ ValidCount(series_v1) = 1 /\ Len(series_v1) = 3 /\ stats_v1.n = 1
    /\ ValidCount(series_v2) = 0 /\ Len(series_v2) = 1 /\ stats_v2.n = 0

CountOk(series, st) ==
    /\ st # NotCalled
    /\ st.n = ValidCount(series)
    /\ st.n >= 2 => st.mean = Num(ValidSum(series), ValidCount(series))

\* C2: n is the number of entries that coerce to a number and are not
\* missing; the other entries are dropped before any statistic is computed
\* (the mean is that of the valid entries) and cause no fault.
C2_ValidCount ==
    Described => CountOk(series_v1, stats_v1) /\ CountOk(series_v2, stats_v2)

\* a group of a missing cell, a non-numeric string and two valid cells, one
\* of them a numeric string
C2_Witness ==
    /\ Described
    /\ Len(series_v1) = 4 /\ stats_v1.n = 2
    /\ \E i \in 1..4 : series_v1[i] = MissingCell
    /\ \E i \in 1..4 : series_v1[i] = StrCell(<<"a", "b", "c">>)
    /\ \E i \in 1..4 : series_v1[i] = StrCell(<<"4">>)

\* both effect-size calls have returned and both groups have n >= 2
BothSized ==
    /\ pc = "returned"
    /\ ValidCount(series_v1) >= 2
    /\ ValidCount(series_v2) >= 2

\* sign and magnitude of a (possibly infinite) value; a NaN has neither
SignOf(x) == IF x.k = "sroot" THEN x.s ELSE Sgn(x.n)

SameMagnitude(x, y) ==
    /\ x.k # "nan" /\ y.k # "nan"
    /\ x.k = y.k
    /\ x.k = "sroot" => x.sq = y.sq
    /\ x.k = "num" => Abs(x.n) = Abs(y.n) /\ x.d = y.d

OppositeSign(x, y) == x.k # "nan" /\ y.k # "nan" /\ SignOf(x) = -SignOf(y)

\* the valid values of a group
ValuesOf(series) == {CellNumber(series[i]) : i \in {j \in 1..Len(series) : ValidCell(series[j])}}

Constant(series) == Cardinality(ValuesOf(series)) = 1

\* C9 as stated: for all A, B with at least 2 valid values each,
\* hedges_g(A, B) and hedges_g(B, A) have opposite signs and the same
\* magnitude.
C9_AsStated ==
    BothSized =>
        /\ OppositeSign(effects.hedges_g, effects_swapped.hedges_g)
        /\ SameMagnitude(effects.hedges_g, effects_swapped.hedges_g)

\* C9 amended: the same, except when both groups are constant with one
\* common value (pooled SD 0 and mean difference 0), where hedges_g is NaN
\* in both orders.
C9_HedgesAntisymmetric ==
    BothSized =>
        IF Constant(series_v1) /\ Constant(series_v2) /\ ValuesOf(series_v1) = ValuesOf(series_v2)
        THEN IsNaN(effects.hedges_g) /\ IsNaN(effects_swapped.hedges_g)
        ELSE /\ OppositeSign(effects.hedges_g, effects_swapped.hedges_g)
             /\ SameMagnitude(effects.hedges_g, effects_swapped.hedges_g)
             /\ effects_swapped.hedges_g = NegV(effects.hedges_g)

\* groups of different spread and different means: a finite non-zero g
C9_Witness ==
    /\ BothSized
    /\ effects.hedges_g.k = "sroot" /\ effects.hedges_g.s = -1
    /\ effects_swapped.hedges_g.k = "sroot" /\ effects_swapped.hedges_g.s = 1
    /\ ~Constant(series_v1) /\ Constant(series_v2)

Defined(x) == x.k # "nan"

\* C10 as stated: for A, B with n >= 2 each the CI for (B, A) is
\* (-upper, -lower) of the CI for (A, B).
C10_AsStated ==
    BothSized =>
        /\ Defined(effects.mean_diff_ci_95[1]) /\ Defined(effects.mean_diff_ci_95[2])
        /\ effects_swapped.mean_diff_ci_95[1] = NegV(effects.mean_diff_ci_95[2])
        /\ effects_swapped.mean_diff_ci_95[2] = NegV(effects.mean_diff_ci_95[1])

\* C10 amended: the same, except when both groups are constant (both
\* variances 0, Welch df = 0/0), where both CI bounds are NaN in both orders.
C10_CISwap ==
    BothSized =>
        IF Constant(series_v1) /\ Constant(series_v2)
        THEN /\ IsNaN(effects.mean_diff_ci_95[1]) /\ IsNaN(effects.mean_diff_ci_95[2])
             /\ IsNaN(effects_swapped.mean_diff_ci_95[1])
             /\ IsNaN(effects_swapped.mean_diff_ci_95[2])
        ELSE /\ Defined(effects.mean_diff_ci_95[1]) /\ Defined(effects.mean_diff_ci_95[2])
             /\ effects_swapped.mean_diff_ci_95[1] = NegV(effects.mean_diff_ci_95[2])
             /\ effects_swapped.mean_diff_ci_95[2] = NegV(effects.mean_diff_ci_95[1])

\* two non-constant groups of different spread with a non-zero mean difference
C10_Witness ==
    /\ BothSized
    /\ ~Constant(series_v1) /\ ~Constant(series_v2)
    /\ effects.mean_diff_ci_95[1].k = "tci"
    /\ effects.mean_diff_ci_95[1].c.n < 0
    /\ effects_swapped.mean_diff_ci_95[2].c.n > 0
    /\ coerce(series_v1) # coerce(series_v2)
    /\ var(coerce(series_v1)) # var(coerce(series_v2))

\* mean and Bessel-corrected variance of the valid values of a group
MeanOf(series) == Num(ValidSum(series), ValidCount(series))

RECURSIVE ValidSumSq(_)
ValidSumSq(series) ==
    IF series = << >> THEN 0
    ELSE (IF ValidCell(Head(series)) THEN CellNumber(Head(series)) * CellNumber(Head(series))
          ELSE 0)
         + ValidSumSq(Tail(series))

VarOf(series) ==
    LET n == ValidCount(series)
    IN  Num(n * ValidSumSq(series) - ValidSum(series) * ValidSum(series), n * (n - 1))

\* diff / sqrt(v) as a float: NaN for 0/0, an infinity for x/0
OverRoot(diff, v) ==
    IF v.n = 0 THEN (IF diff.n = 0 THEN NaN ELSE Inf(Sgn(diff.n)))
    ELSE [k |-> "sroot", s |-> Sgn(diff.n), sq |-> FDiv(FMul(diff, diff), v)]

GlassOf(a, b) == OverRoot(FSub(MeanOf(a), MeanOf(b)), VarOf(a))

\* C11 as stated: for A, B with n >= 2 each glass_delta is
\* (mean(A) - mean(B)) / sd(A), and swapping the groups flips its sign.
C11_AsStated ==
    BothSized =>
        /\ effects.glass_delta = GlassOf(series_v1, series_v2)
        /\ OppositeSign(effects.glass_delta, effects_swapped.glass_delta)

\* C11 amended: glass_delta is (mean(A) - mean(B)) / sd(A) as a float
\* division (NaN when sd(A) = 0 and the means are equal), and swapping the
\* groups flips its sign whenever it is not NaN in either order.
C11_GlassDelta ==
    BothSized =>
        /\ effects.glass_delta = GlassOf(series_v1, series_v2)
        /\ effects_swapped.glass_delta = GlassOf(series_v2, series_v1)
        /\ IsNaN(effects.glass_delta) <=>
              (Constant(series_v1) /\ MeanOf(series_v1) = MeanOf(series_v2))
        /\ (~IsNaN(effects.glass_delta) /\ ~IsNaN(effects_swapped.glass_delta)) =>
              OppositeSign(effects.glass_delta, effects_swapped.glass_delta)

\* groups of different spread: the two orders differ in magnitude and sign
C11_Witness ==
    /\ BothSized
    /\ effects.glass_delta.k = "sroot" /\ effects.glass_delta.s = 1
    /\ effects_swapped.glass_delta.k = "sroot" /\ effects_swapped.glass_delta.s = -1
    /\ effects.glass_delta.sq # effects_swapped.glass_delta.sq

\* the effect sizes of the table have been computed
EffectsDone == pc \in {"swapped", "returned"}

\* C12: for A = [10,12,11,13,9] and B = [20,18,19,17,21] Hedges' g is d * j
\* with d = (mean(A) - mean(B)) / pooled_sd and j = 1 - 3/(4*(n1+n2) - 9),
\* and its magnitude exceeds 2.
C12_ScenarioHedges ==
    (EffectsDone /\ rows = ScenarioRows) =>
        LET diff == FSub(MeanOf(series_v1), MeanOf(series_v2))
            pooled == FDiv(FAdd(FMul(FromInt(4), VarOf(series_v1)),
                                FMul(FromInt(4), VarOf(series_v2))), FromInt(8))
            j == FSub(One, Num(3, 4 * 10 - 9))
        IN  /\ effects.hedges_g.k = "sroot"
            /\ effects.hedges_g.s = -1
            /\ effects.hedges_g.sq = FMul(FDiv(FMul(diff, diff), pooled), FMul(j, j))
            /\ FLt(FromInt(2 * 2), effects.hedges_g.sq)

\* the scenario table has been analysed
C12_Witness ==
    /\ EffectsDone /\ rows = ScenarioRows
    /\ effects.hedges_g.sq = Num(100352, 4805)

\* some group of the table has no valid value / fewer than 2 valid values
EmptyGroup == ValidCount(series_v1) = 0 \/ ValidCount(series_v2) = 0

SmallGroup == ValidCount(series_v1) < 2 \/ ValidCount(series_v2) < 2

\* C13 as stated: whenever either group has fewer than 2 valid values,
\* calculate_mean_difference_effects returns NaN for hedges_g, glass_delta
\* and both CI bounds, and raises no fault.
C13_SmallGroupUndefined ==
    SmallGroup =>
        /\ fault # "ZeroDivisionError"
        /\ EffectsDone =>
              /\ IsNaN(effects.hedges_g)
              /\ IsNaN(effects.glass_delta)
              /\ IsNaN(effects.mean_diff_ci_95[1])
              /\ IsNaN(effects.mean_diff_ci_95[2])

\* two values against one: glass_delta is a finite number although the
\* second group has fewer than 2 values
C13_Witness ==
    /\ EffectsDone
    /\ ValidCount(series_v1) = 2 /\ ValidCount(series_v2) = 1
    /\ fault = "none"
    /\ effects.glass_delta.k = "sroot"
    /\ IsNaN(effects.hedges_g)

\* compare_groups has returned for the table
Compared == pc \in {"effects", "swapped", "returned"} \/ fault = "ZeroDivisionError"

\* a p-value that is a number in [0,1]
DefinedP(p) ==
    \/ p.k = "num" /\ InUnit(p)
    \/ p.k = "norm_sf2" /\ p.z2.k = "num" /\ p.z2.n > 0
    \/ p.k = "t_sf2" /\ p.t2.k = "num" /\ p.t2.n > 0 /\ p.df.k = "num" /\ p.df.n > 0

\* C14: the two tests of compare_groups are independent: with exactly 1
\* valid value in one group and at least 1 in the other the Welch p-value
\* is NaN and the Mann-Whitney p-value is a number in [0,1]; the
\* Mann-Whitney p-value is defined whenever both groups are non-empty,
\* whatever the Welch p-value is, and the Welch p-value is defined whenever
\* its own requirements are met.
C14_Independent ==
    Compared =>
        LET n1 == ValidCount(series_v1)
            n2 == ValidCount(series_v2)
            welch == comparisons.welch_t_p_value
            mwu == comparisons.mwu_p_value
        IN  /\ ((n1 = 1 /\ n2 >= 1) \/ (n2 = 1 /\ n1 >= 1)) =>
                  IsNaN(welch) /\ DefinedP(mwu)
            /\ (n1 >= 1 /\ n2 >= 1) => DefinedP(mwu)
            /\ IsNaN(mwu) => (n1 = 0 \/ n2 = 0)
            /\ (n1 >= 2 /\ n2 >= 2
                  /\ ~(Constant(series_v1) /\ Constant(series_v2)
                        /\ MeanOf(series_v1) = MeanOf(series_v2))) => DefinedP(welch)

\* one value against two smaller ones: Welch NaN, Mann-Whitney strictly
\* inside (0,1)
C14_Witness ==
    /\ Compared
    /\ ValidCount(series_v1) = 1 /\ ValidCount(series_v2) = 2
    /\ IsNaN(comparisons.welch_t_p_value)
    /\ comparisons.mwu_p_value = [k |-> "norm_sf2", z2 |-> Num(3, 8)]

\* C15 as stated: when a group has no valid value, compare_groups returns
\* NaN for both p-values and raises no fault, and the run goes on.
C15_EmptyGroupUndefined ==
    (EmptyGroup /\ pc \notin {"describe", "compare"}) =>
        /\ fault = "none"
        /\ IsNaN(comparisons.welch_t_p_value)
        /\ IsNaN(comparisons.mwu_p_value)

----------------------------------------------------------------------------
(* Failure handling and frame properties of the two scripts.               *)

\* question j has a verdict line in the output
Reported(j) == \E l \in 1..Len(output) : output[l].question = FEEDBACK_FORM_QUESTIONS[j]

\* C16 as stated: a question whose contingency table is degenerate does not
\* terminate the analysis, and every other question of the family is still
\* tested, corrected and reported.
C16_DegenerateIsolated ==
    /\ pc # "raised"
    /\ pc = "done" => \A j \in 1..NumQuestions : tables[j] # Raises => Reported(j)

\* the family is complete: about to be handed, or handed, to multipletests
FamilyBuilt == pc = "correct" \/ Corrected

C19_AsStated ==
    [][/\ tables' = tables /\ rows' = rows
       /\ \A j \in 1..Len(analysis_results) : analysis_results'[j] = analysis_results[j]
       /\ stats_v1 # NotCalled => stats_v1' = stats_v1
       /\ stats_v2 # NotCalled => stats_v2' = stats_v2]_vars

\* C19 amended: the inputs are never changed and every result is left alone
\* once set, except that each chi-square result record is completed once by
\* the attach loop, which adds p_bonferroni and q_fdr to it: its question
\* and p_raw never change and an attached value never changes.
C19_Frame ==
    [][/\ tables' = tables /\ rows' = rows
       /\ \A j \in 1..Len(analysis_results) :
             /\ Len(analysis_results') >= j
             /\ analysis_results'[j].question = analysis_results[j].question
             /\ analysis_results'[j].p_raw = analysis_results[j].p_raw
             /\ analysis_results[j].p_bonferroni # Unset =>
                   analysis_results'[j].p_bonferroni = analysis_results[j].p_bonferroni
             /\ analysis_results[j].q_fdr # Unset =>
                   analysis_results'[j].q_fdr = analysis_results[j].q_fdr
       /\ p_bonferroni # << >> => p_bonferroni' = p_bonferroni
       /\ q_fdr # << >> => q_fdr' = q_fdr
       /\ \A l \in 1..Len(output) : Len(output') >= l /\ output'[l] = output[l]
       /\ stats_v1 # NotCalled => stats_v1' = stats_v1
       /\ stats_v2 # NotCalled => stats_v2' = stats_v2
       /\ comparisons # NotCalled => comparisons' = comparisons
       /\ effects # NotCalled => effects' = effects
       /\ effects_swapped # NotCalled => effects_swapped' = effects_swapped]_vars

\* every result record of a finished run has been completed after it was
\* built, with a Bonferroni value that differs from its raw p-value
C19_Witness ==
    /\ pc = "done"
    /\ \A j \in 1..NumQuestions :
          /\ analysis_results[j].p_bonferroni # Unset
          /\ analysis_results[j].p_bonferroni # analysis_results[j].p_raw

\* the descriptive statistics the claim describes for a group of n >= 2
\* valid values: SD with divisor n - 1, SEM = SD / sqrt(n), and a CI
\* mean -/+ t * SEM, which is [mean, mean] when the SEM is 0
DescriptiveOk(series, st) ==
    LET n == ValidCount(series)
        sem2 == FDiv(VarOf(series), FromInt(n))
    IN  n >= 2 =>
          /\ st.mean = MeanOf(series)
          /\ st.std = SqrtV(VarOf(series))
          /\ st.sem = SqrtV(sem2)
          /\ st.ci_95 =
                IF sem2.n = 0 THEN <<MeanOf(series), MeanOf(series)>>
                ELSE <<[k |-> "tci", c |-> MeanOf(series), s |-> -1,
                        df |-> FromInt(n - 1), sq |-> sem2],
                       [k |-> "tci", c |-> MeanOf(series), s |-> 1,
                        df |-> FromInt(n - 1), sq |-> sem2]>>

\* C20 as stated: for every sample with n >= 2 valid values the SD has
\* divisor n - 1, the SEM is SD / sqrt(n), and the 95% CI is centred on the
\* mean with a half-width >= 0 proportional to the SEM.
C20_Descriptive ==
    Described =>
        /\ DescriptiveOk(series_v1, stats_v1)
        /\ DescriptiveOk(series_v2, stats_v2)

\* a constant sample of at least 2 values: SD and SEM are 0 and both CI
\* bounds are NaN
C20_Witness ==
    /\ Described
    /\ ValidCount(series_v1) >= 2 /\ Constant(series_v1)
    /\ stats_v1.mean = MeanOf(series_v1)
    /\ stats_v1.sem = SqrtV(Zero)
    /\ IsNaN(stats_v1.ci_95[1]) /\ IsNaN(stats_v1.ci_95[2])

\* apart from constant samples the statistics are as C20 describes
C20_NonConstant ==
    Described =>
        /\ ~Constant(series_v1) => DescriptiveOk(series_v1, stats_v1)
        /\ ~Constant(series_v2) => DescriptiveOk(series_v2, stats_v2)

----------------------------------------------------------------------------
(* The CI of the mean difference and its degrees of freedom (SpecStats).   *)

\* var1/n1 + var2/n2 of two groups, from their valid values
SeSquared(a, b) ==
    FAdd(FDiv(VarOf(a), FromInt(ValidCount(a))), FDiv(VarOf(b), FromInt(ValidCount(b))))

\* the Welch-Satterthwaite df of two groups, from their valid values
WelchDf(a, b) ==
    LET n1 == ValidCount(a)
        n2 == ValidCount(b)
        v1 == VarOf(a)
        v2 == VarOf(b)
    IN  FDiv(FMul(SeSquared(a, b), SeSquared(a, b)),
             FAdd(FDiv(FMul(v1, v1), FromInt(n1 * n1 * (n1 - 1))),
                  FDiv(FMul(v2, v2), FromInt(n2 * n2 * (n2 - 1)))))

\* (mean(a) - mean(b)) -/+ t(df) * se, which is the mean difference itself
\* on both sides when se = 0
ExpectedCI(a, b) ==
    LET diff == FSub(MeanOf(a), MeanOf(b))
    IN  IF SeSquared(a, b).n = 0 THEN <<diff, diff>>
        ELSE <<[k |-> "tci", c |-> diff, s |-> -1, df |-> WelchDf(a, b), sq |-> SeSquared(a, b)],
               [k |-> "tci", c |-> diff, s |-> 1, df |-> WelchDf(a, b), sq |-> SeSquared(a, b)]>>

\* C21 as stated: for A, B with n >= 2 each the CI is
\* (mean(A) - mean(B)) -/+ critical_value * se with se = sqrt(var1/n1 +
\* var2/n2) at the Welch-Satterthwaite df: centred on the mean difference
\* with lower <= mean difference <= upper.
C21_AsStated ==
    BothSized => effects.mean_diff_ci_95 = ExpectedCI(series_v1, series_v2)

\* C21 amended: the same, for groups that are not both constant (se > 0):
\* the df is then a positive number, so the critical value is positive and
\* lower < mean difference < upper; when both groups are constant the df is
\* 0/0 and both bounds are NaN.
C21_MeanDiffCI ==
    BothSized =>
        IF SeSquared(series_v1, series_v2).n = 0
        THEN /\ Constant(series_v1) /\ Constant(series_v2)
             /\ effects.mean_diff_ci_95 = <<NaN, NaN>>
        ELSE /\ effects.mean_diff_ci_95 = ExpectedCI(series_v1, series_v2)
             /\ IsNum(WelchDf(series_v1, series_v2))
             /\ WelchDf(series_v1, series_v2).n > 0
             /\ SeSquared(series_v1, series_v2).n > 0

\* groups of different means and different spreads
C21_Witness ==
    /\ BothSized
    /\ effects.mean_diff_ci_95[1].k = "tci"
    /\ effects.mean_diff_ci_95[1].c.n # 0
    /\ VarOf(series_v1) # VarOf(series_v2)
    /\ VarOf(series_v1).n > 0 /\ VarOf(series_v2).n > 0

----------------------------------------------------------------------------
(* Determinism and ordering of the adjusted values (SpecFeedback).         *)

\* s is an ascending order of the family, ties in any order
SortsFamily(pvals, s) ==
    \A a, b \in 1..Len(pvals) : a < b => FLe(pvals[s[a]], pvals[s[b]])

\* the two corrections computed with a given sort order
BonferroniWith(pvals, s) ==
    Scatter(Clip1([j \in 1..Len(pvals) |-> FMul(take(pvals, s)[j], FromInt(Len(pvals)))]), s)

FdrWith(pvals, s) == Scatter(Clip1(fdrcorrection(take(pvals, s))), s)

C26_Ordering ==
    /\ Corrected =>
          \A i \in 1..Len(raw_p_values) :
              /\ FLe(raw_p_values[i], q_fdr[i])
              /\ FLe(q_fdr[i], p_bonferroni[i])
              /\ FLe(p_bonferroni[i], One)
              /\ FLt(p_bonferroni[i], Alpha) => FLt(q_fdr[i], Alpha)
    /\ \A l \in 1..Len(output) :
          output[l].verdict = NotLine <=> FLe(Alpha, analysis_results[l].q_fdr)

\* a finished run with q strictly between raw p and Bonferroni for one
\* question, and all three verdicts printed
C26_Witness ==
    /\ pc = "done"
    /\ \E i \in 1..NumQuestions :
          FLt(raw_p_values[i], q_fdr[i]) /\ FLt(q_fdr[i], p_bonferroni[i])
    /\ \E l \in 1..Len(output) : output[l].verdict = NotLine
    /\ \E l \in 1..Len(output) : output[l].verdict = FdrLine
    /\ \E l \in 1..Len(output) : output[l].verdict = BonfLine

----------------------------------------------------------------------------
(* compare_groups under a swap of the groups (SpecStats).                  *)

\* C23: for all samples A and B, each p-value of compare_groups that is
\* defined for (A, B) is the same for (B, A), and a p-value undefined for
\* (A, B) is undefined for (B, A).
C23_SwapInvariant ==
    Compared =>
        LET swapped == compare_groups(series_v2, series_v1)
        IN  /\ DefinedP(comparisons.welch_t_p_value) =>
                  swapped.welch_t_p_value = comparisons.welch_t_p_value
            /\ DefinedP(comparisons.mwu_p_value) =>
                  swapped.mwu_p_value = comparisons.mwu_p_value
            /\ IsNaN(comparisons.welch_t_p_value) <=> IsNaN(swapped.welch_t_p_value)
            /\ IsNaN(comparisons.mwu_p_value) <=> IsNaN(swapped.mwu_p_value)

\* groups of different location and spread whose two p-values lie strictly
\* inside (0,1)
C23_Witness ==
    /\ Compared
    /\ comparisons.welch_t_p_value.k = "t_sf2"
    /\ comparisons.mwu_p_value.k = "norm_sf2"
    /\ VarOf(series_v1) # VarOf(series_v2)
    /\ FLt(MeanOf(series_v1), MeanOf(series_v2))

----------------------------------------------------------------------------
(* Bounds of the Welch-Satterthwaite df (SpecWelch).                       *)

MinInt(a, b) == IF a <= b THEN a ELSE b

\* C27: for all n1, n2 >= 2 and all variances >= 0 that are not both zero
\* the divisor of the df formula is non-zero and
\* min(n1-1, n2-1) <= df <= n1 + n2 - 2.
C27_DfBounds ==
    (pc = "welch_done" /\ ~(welch_df.v1 = Zero /\ welch_df.v2 = Zero)) =>
        /\ IsNum(welch_df.divisor) /\ welch_df.divisor.n # 0
        /\ IsNum(welch_df.df)
        /\ FLe(FromInt(MinInt(welch_df.n1 - 1, welch_df.n2 - 1)), welch_df.df)
        /\ FLe(welch_df.df, FromInt(welch_df.n1 + welch_df.n2 - 2))

\* unequal sizes and unequal positive variances: df strictly inside the
\* bounds
C27_Witness ==
    /\ pc = "welch_done"
    /\ welch_df.n1 # welch_df.n2
    /\ welch_df.v1 # welch_df.v2 /\ welch_df.v1.n > 0 /\ welch_df.v2.n > 0
    /\ FLt(FromInt(MinInt(welch_df.n1 - 1, welch_df.n2 - 1)), welch_df.df)
    /\ FLt(welch_df.df, FromInt(welch_df.n1 + welch_df.n2 - 2))

\* the lower bound is attained when one variance is 0, the upper bound for
\* equal sizes and variances
C27_BoundsAttained ==
    pc = "welch_done" =>
        /\ (welch_df.v1 = Zero /\ welch_df.v2 # Zero) =>
              welch_df.df = FromInt(welch_df.n2 - 1)
        /\ (welch_df.v1 = welch_df.v2 /\ welch_df.n1 = welch_df.n2 /\ welch_df.v1 # Zero) =>
              welch_df.df = FromInt(welch_df.n1 + welch_df.n2 - 2)

----------------------------------------------------------------------------
(* robots.txt before the page (SpecScrape).                                *)

PageRequested == \E i \in 1..Len(requested) : requested[i] = "page"

\* robots.txt was fetched and permits the URL
RobotsPermit == web.robots_get = "ok" /\ web.robots_body = "allow"

\* C24: the page is requested only after robots.txt has been fetched
\* successfully and permits the URL; if it disallows the URL, or fetching
\* or parsing it fails, the page is never requested and no readability
\* metric is computed.
C24_RobotsFirst ==
    /\ PageRequested =>
          /\ requested = <<"robots.txt", "page">>
          /\ RobotsPermit
          /\ allowed = "yes"
    /\ ~RobotsPermit => ~PageRequested /\ ~printed /\ allowed # "yes"
    /\ printed => PageRequested
    /\ pc \in {"page_get", "clean", "failed", "reported"} => RobotsPermit

\* a permitted page whose metrics were computed
C24_Witness ==
    /\ pc = "reported"
    /\ printed
    /\ requested = <<"robots.txt", "page">>

\* a run that ends without the page: robots.txt could not be read
C24_Skipped ==
    (pc = "skipped") => (requested = <<"robots.txt">> /\ ~printed /\ ~RobotsPermit)

----------------------------------------------------------------------------
(* The samples main_v2_analysis passes to its helpers (SpecMain).          *)

\* the rows of all samples of a call
RowsOf(c) == UNION {{c.args[a][i] : i \in 1..Len(c.args[a])} : a \in 1..Len(c.args)}

Inferential(c) == c.fn \in {"compare_groups", "calculate_mean_difference_effects"}

\* C25: compare_groups and calculate_mean_difference_effects are only
\* applied to samples of published pubs, the in-progress pubs only reach
\* calculate_descriptive_stats, and every workdays sample passed to any
\* helper holds only numbers > 0.
C25_PublishedOnly ==
    \A j \in 1..Len(calls) :
        /\ Inferential(calls[j]) =>
              \A r \in RowsOf(calls[j]) : r.status = "Published"
        /\ (\E r \in RowsOf(calls[j]) : r.status # "Published") =>
              calls[j].fn = "calculate_descriptive_stats"
        /\ calls[j].column = "work" =>
              \A r \in RowsOf(calls[j]) :
                  /\ IsNum(r.work) /\ r.work.n > 0
                  /\ to_numeric(csv.rows[r.id].work) = r.work

\* a finished run on a file with a published pub, an in-progress pub and a
\* dropped row: the in-progress pub was described, the published one compared
C25_Witness ==
    /\ pc = "main_done"
    /\ Len(df_current) < Len(csv.rows)
    /\ \E j \in 1..Len(calls) :
          /\ calls[j].fn = "calculate_descriptive_stats"
          /\ \E r \in RowsOf(calls[j]) : r.status = "In progress"
    /\ \E j \in 1..Len(calls) : Inferential(calls[j]) /\ RowsOf(calls[j]) # {}

====
